---------------------------- MODULE Spec2Model ----------------------------
(***************************************************************************)
(* METAR CSV -> structured JSON translator                                 *)
(* (scripts/metar_translation/metar_translator.py).                        *)
(*                                                                         *)
(* Python strings are sequences of one-character strings; every Python     *)
(* value is a tagged record [t |-> <type>, v |-> <payload>] so that values *)
(* of different Python types can be compared.                              *)
(***************************************************************************)
EXTENDS Integers, Sequences, FiniteSets, TLC

VARIABLES
    pc,             \* position of the operation under study
    raw,            \* parse_numeric_field: the raw argument
    cast,           \* parse_numeric_field: the cast argument ("float" | "int")
    num_out,        \* parse_numeric_field: the returned (value, is_trace)
    metar,          \* parse_metar_text: the argument
    parsed,         \* parse_metar_text: the returned dict
    row,            \* row_to_record: the row, a dict column -> Optional[str]
    csv_fieldnames, \* row_to_record: the column-name list
    rec,            \* row_to_record: the record under construction
    ci,             \* row_to_record: position of the final loop in csv_fieldnames
    dt_called,      \* row_to_record: whether pd.to_datetime was called
    docs,           \* recurse_and_process: the files root.rglob(pattern) yields
    doc_ix,         \* recurse_and_process: position of the loop in docs
    results,        \* recurse_and_process: the list returned
    stdout,         \* the lines printed
    files,          \* the JSON files on disk, path -> content
    records,        \* process_csv_to_json: the records read
    payload,        \* process_csv_to_json: the payload built
    clock           \* datetime.utcnow()

numeric_vars == <<raw, cast, num_out>>
text_vars == <<metar, parsed>>
row_vars == <<row, csv_fieldnames, rec, ci, dt_called>>
batch_vars == <<docs, doc_ix, results, stdout, files, records, payload, clock>>
vars == <<pc, numeric_vars, text_vars, row_vars, batch_vars>>

(***************************************************************************)
(* Bounds of the model.                                                    *)
(***************************************************************************)
\* A raw numeric token is the concatenation of at most MaxNumFrags fragments.
MaxNumFrags == 3
\* A METAR text is the concatenation of at most MaxTextFrags fragments.
MaxTextFrags == 3
\* A CSV header has at most MaxCols columns.
MaxCols == 2
\* A directory tree holds at most MaxDocs CSV files.
MaxDocs == 2

(***************************************************************************)
(* Python values.                                                          *)
(***************************************************************************)
None == [t |-> "none", v |-> <<>>]
Str(s) == [t |-> "str", v |-> s]
Bool(b) == [t |-> "bool", v |-> b]
\* A finite number m * 10^e, kept normalised; "inf" and "nan" are the
\* special floats.  Python's 0, 0.0 and -0.0 are all equal: one zero.
Num(m, e) == [t |-> "num", v |-> [k |-> "fin", m |-> m, e |-> e]]
Inf(sign) == [t |-> "num", v |-> [k |-> "inf", m |-> sign, e |-> 0]]
NaN == [t |-> "num", v |-> [k |-> "nan", m |-> 0, e |-> 0]]
Pair(a, b) == <<a, b>>

isinstance_str(x) == x.t = "str"

(***************************************************************************)
(* str methods.                                                            *)
(***************************************************************************)
IsSpace(c) == c \in {" ", "\t", "\n", "\r"}

RECURSIVE lstrip(_)
lstrip(s) ==
    IF s # <<>> /\ IsSpace(Head(s)) THEN lstrip(Tail(s)) ELSE s

RECURSIVE rstrip(_)
rstrip(s) ==
    IF s # <<>> /\ IsSpace(s[Len(s)]) THEN rstrip(SubSeq(s, 1, Len(s) - 1)) ELSE s

\* str.strip(): surrounding whitespace removed
strip(s) == rstrip(lstrip(s))

\* truthiness of an Optional[str]
Truthy(x) == x.t = "str" /\ x.v # <<>>

(***************************************************************************)
(* The casts float() and int() on a string.                                *)
(***************************************************************************)
Digits == <<"0", "1", "2", "3", "4", "5", "6", "7", "8", "9">>
IsDigit(c) == \E i \in 1..10 : Digits[i] = c
DigitVal(c) == (CHOOSE i \in 1..10 : Digits[i] = c) - 1
AllDigits(s) == \A i \in 1..Len(s) : IsDigit(s[i])

RECURSIVE DigitsVal(_)
DigitsVal(s) ==
    IF s = <<>> THEN 0 ELSE 10 * DigitsVal(SubSeq(s, 1, Len(s) - 1)) + DigitVal(s[Len(s)])

Lower(c) ==
    CASE c = "N" -> "n" [] c = "A" -> "a" [] c = "I" -> "i" [] c = "F" -> "f"
      [] c = "T" -> "t" [] c = "Y" -> "y" [] c = "E" -> "e" [] OTHER -> c
LowerStr(s) == [i \in 1..Len(s) |-> Lower(s[i])]

\* first index of a character of set cs in s, or 0
FirstOf(s, cs) ==
    IF \E i \in 1..Len(s) : s[i] \in cs
    THEN CHOOSE i \in 1..Len(s) : s[i] \in cs /\ \A j \in 1..(i - 1) : s[j] \notin cs
    ELSE 0

RECURSIVE Normalise(_, _)
Normalise(m, e) ==
    IF m = 0 THEN Num(0, 0)
    ELSE IF m % 10 = 0 THEN Normalise(m \div 10, e + 1)
    ELSE Num(m, e)

Failed == [ok |-> FALSE, val |-> None]
Cast_ok(x) == [ok |-> TRUE, val |-> x]

HasSign(s) == s # <<>> /\ Head(s) \in {"+", "-"}
SignOf(s) == IF s # <<>> /\ Head(s) = "-" THEN -1 ELSE 1
Unsigned(s) == IF HasSign(s) THEN Tail(s) ELSE s

\* float(s): surrounding whitespace ignored, then
\*   [sign] ("inf" | "infinity" | "nan")  (any letter case), or
\*   [sign] (digits ["." [digits]] | "." digits) [("e"|"E") [sign] digits].
\* A ValueError otherwise.  A magnitude past the double range gives inf.
float_cast(s) ==
    LET t == strip(s)
        u == Unsigned(t)
        sg == SignOf(t)
        lw == LowerStr(u)
        ei == FirstOf(u, {"e", "E"})
        mant == IF ei = 0 THEN u ELSE SubSeq(u, 1, ei - 1)
        expo == IF ei = 0 THEN <<>> ELSE SubSeq(u, ei + 1, Len(u))
        di == FirstOf(mant, {"."})
        ip == IF di = 0 THEN mant ELSE SubSeq(mant, 1, di - 1)
        fp == IF di = 0 THEN <<>> ELSE SubSeq(mant, di + 1, Len(mant))
        mant_ok == AllDigits(ip) /\ AllDigits(fp) /\ Len(ip) + Len(fp) > 0
        expo_ok == ei = 0 \/ (Unsigned(expo) # <<>> /\ AllDigits(Unsigned(expo)))
        ev == IF ei = 0 THEN 0 ELSE SignOf(expo) * DigitsVal(Unsigned(expo))
        m == DigitsVal(ip \o fp)
        e == ev - Len(fp)
    IN  IF lw = <<"n", "a", "n">> THEN Cast_ok(NaN)
        ELSE IF lw \in {<<"i", "n", "f">>, <<"i", "n", "f", "i", "n", "i", "t", "y">>}
        THEN Cast_ok(Inf(sg))
        ELSE IF ~(mant_ok /\ expo_ok) THEN Failed
        ELSE IF m # 0 /\ Len(ip \o fp) + e > 309 THEN Cast_ok(Inf(sg))
        ELSE Cast_ok(Normalise(sg * m, e))

\* int(s): surrounding whitespace ignored, then [sign] digits.
int_cast(s) ==
    LET t == strip(s)
        u == Unsigned(t)
    IN  IF u # <<>> /\ AllDigits(u) THEN Cast_ok(Normalise(SignOf(t) * DigitsVal(u), 0))
        ELSE Failed

\* cast(x) for the two numeric target types; x is a string.
Cast(c, s) == IF c = "float" THEN float_cast(s) ELSE int_cast(s)
\* cast(0): both target types accept the integer literal 0.
CastZero(c) == Cast_ok(Num(0, 0))

(***************************************************************************)
(* Helpers (lines 31-60).                                                  *)
(***************************************************************************)
MissingTokens == {<<>>, <<"M">>, <<"N", "A">>, <<"N", "o", "n", "e">>}

\* is_missing without its "s is None" test
is_missing_no_null(s) == isinstance_str(s) /\ strip(s.v) \in MissingTokens

is_missing(s) == s = None \/ (isinstance_str(s) /\ strip(s.v) \in MissingTokens)

is_trace_token(s) == isinstance_str(s) /\ strip(s.v) = <<"T">>

\* An exception leaves the function instead of a (value, is_trace) pair.
Exception(name) == [t |-> "exception", v |-> name]
Raise(name) == Pair(Exception(name), Exception(name))

parse_numeric_field(rw, c) ==
    IF is_missing(rw) THEN Pair(None, Bool(FALSE))
    ELSE IF ~isinstance_str(rw) THEN Raise("AttributeError")   \* line 49: None.strip()
    ELSE LET r == Str(strip(rw.v))
         IN  IF is_trace_token(r)
             THEN (IF CastZero(c).ok THEN Pair(CastZero(c).val, Bool(TRUE))
                   ELSE Pair(Num(0, 0), Bool(TRUE)))
             ELSE (IF Cast(c, r.v).ok THEN Pair(Cast(c, r.v).val, Bool(FALSE))
                   ELSE Pair(None, Bool(FALSE)))

(***************************************************************************)
(* Regular-expression primitives.  Positions are 1-based; a match is       *)
(* [b |-> first position, e |-> position after the last character, ...].   *)
(***************************************************************************)
Letters ==
    { "A", "B", "C", "D", "E", "F", "G", "H", "I", "J", "K", "L", "M", "N", "O", "P",
      "Q", "R", "S", "T", "U", "V", "W", "X", "Y", "Z",
      "a", "b", "c", "d", "e", "f", "g", "h", "i", "j", "k", "l", "m", "n", "o", "p",
      "q", "r", "s", "t", "u", "v", "w", "x", "y", "z" }
\* \w
IsWord(c) == c \in Letters \/ IsDigit(c) \/ c = "_"

InRange(s, i) == i >= 1 /\ i <= Len(s)
\* \b at position i: between the characters i-1 and i
WordBoundary(s, i) ==
    (InRange(s, i - 1) /\ IsWord(s[i - 1])) # (InRange(s, i) /\ IsWord(s[i]))
\* the literal lit at position i
LitAt(s, i, lit) ==
    /\ i >= 1
    /\ i + Len(lit) - 1 <= Len(s)
    /\ SubSeq(s, i, i + Len(lit) - 1) = lit
\* \d{n} at position i
DigitsAt(s, i, n) ==
    /\ i >= 1
    /\ i + n - 1 <= Len(s)
    /\ \A j \in i..(i + n - 1) : IsDigit(s[j])

\* the first candidate (in the order the backtracking matcher tries them)
\* that succeeds, as an index into the sequence of outcomes, or 0
FirstOk(oks) ==
    IF \E k \in 1..Len(oks) : oks[k]
    THEN CHOOSE k \in 1..Len(oks) : oks[k] /\ \A j \in 1..(k - 1) : ~oks[j]
    ELSE 0

\* re.search: the leftmost of the positions where the pattern matches, or 0
Leftmost(positions) ==
    IF positions # {}
    THEN CHOOSE i \in positions : \A j \in positions : i <= j
    ELSE 0

NoMatch == [b |-> 0, e |-> 0]

(***************************************************************************)
(* wind_re (line 67):                                                      *)
(*   (?P<dir>\d{3}|VRB)(?P<spd>\d{2,3})(G(?P<gst>\d{2,3}))?KT              *)
(***************************************************************************)
\* <<spd digits, gst digits (0: the gust group does not take part)>>, greedy first
wind_cands == << <<3, 3>>, <<3, 2>>, <<3, 0>>, <<2, 3>>, <<2, 2>>, <<2, 0>> >>

wind_ok(s, i, c) ==
    /\ DigitsAt(s, i, 3) \/ LitAt(s, i, <<"V", "R", "B">>)
    /\ DigitsAt(s, i + 3, c[1])
    /\ IF c[2] = 0 THEN LitAt(s, i + 3 + c[1], <<"K", "T">>)
       ELSE /\ LitAt(s, i + 3 + c[1], <<"G">>)
            /\ DigitsAt(s, i + 4 + c[1], c[2])
            /\ LitAt(s, i + 4 + c[1] + c[2], <<"K", "T">>)

wind_re_search(s) ==
    LET At(i) == \E k \in 1..Len(wind_cands) : wind_ok(s, i, wind_cands[k])
        i == Leftmost({x \in 1..(Len(s) + 1) : At(x)})
        Ok(c) == wind_ok(s, i, c)
        c == wind_cands[FirstOk([y \in 1..Len(wind_cands) |-> Ok(wind_cands[y])])]
    IN  IF i = 0 THEN NoMatch
        ELSE [b |-> i,
              e |-> i + 3 + c[1] + (IF c[2] = 0 THEN 0 ELSE 1 + c[2]) + 2,
              dir |-> SubSeq(s, i, i + 2),
              spd |-> SubSeq(s, i + 3, i + 2 + c[1]),
              gst |-> IF c[2] = 0 THEN None
                      ELSE Str(SubSeq(s, i + 4 + c[1], i + 3 + c[1] + c[2]))]

(***************************************************************************)
(* vis_re (line 68):  (?P<vis>\d{1,2}(?: ?/?\d)?SM|M?1/4|M1/2)             *)
(***************************************************************************)
\* first alternative: <<leading digits, group takes part, space, slash>>
vis_sm_cands ==
    << <<2, 1, 1, 1>>, <<2, 1, 1, 0>>, <<2, 1, 0, 1>>, <<2, 1, 0, 0>>, <<2, 0, 0, 0>>,
       <<1, 1, 1, 1>>, <<1, 1, 1, 0>>, <<1, 1, 0, 1>>, <<1, 1, 0, 0>>, <<1, 0, 0, 0>> >>

\* length matched by a candidate of the first alternative
vis_sm_len(c) == c[1] + (IF c[2] = 1 THEN c[3] + c[4] + 1 ELSE 0) + 2

vis_sm_ok(s, i, c) ==
    /\ DigitsAt(s, i, c[1])
    /\ c[2] = 1 =>
         /\ c[3] = 1 => LitAt(s, i + c[1], <<" ">>)
         /\ c[4] = 1 => LitAt(s, i + c[1] + c[3], <<"/">>)
         /\ DigitsAt(s, i + c[1] + c[3] + c[4], 1)
    /\ LitAt(s, i + vis_sm_len(c) - 2, <<"S", "M">>)

\* the alternatives after the first, in order: M?1/4 (M taken first), M1/2
vis_frac_alts == << <<"M", "1", "/", "4">>, <<"1", "/", "4">>, <<"M", "1", "/", "2">> >>

\* end (exclusive) of the match at i, or 0
vis_end_at(s, i) ==
    LET OkSm(c) == vis_sm_ok(s, i, c)
        k == FirstOk([y \in 1..Len(vis_sm_cands) |-> OkSm(vis_sm_cands[y])])
        OkFr(l) == LitAt(s, i, l)
        f == FirstOk([y \in 1..Len(vis_frac_alts) |-> OkFr(vis_frac_alts[y])])
    IN  IF k # 0 THEN i + vis_sm_len(vis_sm_cands[k])
        ELSE IF f # 0 THEN i + Len(vis_frac_alts[f])
        ELSE 0

vis_re_search(s) ==
    LET At(i) == vis_end_at(s, i) # 0
        i == Leftmost({x \in 1..(Len(s) + 1) : At(x)})
    IN  IF i = 0 THEN NoMatch
        ELSE [b |-> i, e |-> vis_end_at(s, i), vis |-> SubSeq(s, i, vis_end_at(s, i) - 1)]

(***************************************************************************)
(* altimeter_re (line 69):  A(?P<alt>\d{4})                                *)
(***************************************************************************)
altimeter_at(s, i) == LitAt(s, i, <<"A">>) /\ DigitsAt(s, i + 1, 4)

altimeter_re_search(s) ==
    LET At(i) == altimeter_at(s, i)
        i == Leftmost({x \in 1..(Len(s) + 1) : At(x)})
    IN  IF i = 0 THEN NoMatch
        ELSE [b |-> i, e |-> i + 5, alt |-> SubSeq(s, i + 1, i + 4)]

(***************************************************************************)
(* cloud_re (line 70):                                                     *)
(*   \b(FEW|SCT|BKN|OVC|VV)(\d{3}|\d{3}CB|\d{3}TCU)?\b                     *)
(***************************************************************************)
cloud_covers ==
    << <<"F", "E", "W">>, <<"S", "C", "T">>, <<"B", "K", "N">>, <<"O", "V", "C">>,
       <<"V", "V">> >>
\* the optional group's alternatives in order; <<>>: the group does not take part
cloud_suffixes == << <<>>, <<"C", "B">>, <<"T", "C", "U">> >>
\* <<height digits, suffix>> in the order tried
cloud_cands == << <<3, 1>>, <<3, 2>>, <<3, 3>>, <<0, 1>> >>

cloud_ok(s, i, cov, c) ==
    LET p == i + Len(cov)
        q == p + c[1] + Len(cloud_suffixes[c[2]])
    IN  /\ WordBoundary(s, i)
        /\ LitAt(s, i, cov)
        /\ DigitsAt(s, p, c[1])
        /\ LitAt(s, p + c[1], cloud_suffixes[c[2]])
        /\ WordBoundary(s, q)

\* end (exclusive) of the match at i, or 0
cloud_end_at(s, i) ==
    LET OkCov(cov) == \E k \in 1..Len(cloud_cands) : cloud_ok(s, i, cov, cloud_cands[k])
        v == FirstOk([y \in 1..Len(cloud_covers) |-> OkCov(cloud_covers[y])])
        Ok(c) == cloud_ok(s, i, cloud_covers[v], c)
        c == cloud_cands[FirstOk([y \in 1..Len(cloud_cands) |-> Ok(cloud_cands[y])])]
    IN  IF v = 0 THEN 0
        ELSE i + Len(cloud_covers[v]) + c[1] + Len(cloud_suffixes[c[2]])

\* re.findall: the non-overlapping matches from left to right, each flattened
\* with "".join(groups).strip(), which is the matched text
RECURSIVE cloud_re_findall(_, _)
cloud_re_findall(s, from) ==
    LET At(i) == cloud_end_at(s, i) # 0
        i == Leftmost({x \in from..(Len(s) + 1) : At(x)})
    IN  IF i = 0 THEN <<>>
        ELSE <<Str(strip(SubSeq(s, i, cloud_end_at(s, i) - 1)))>>
                 \o cloud_re_findall(s, cloud_end_at(s, i))

(***************************************************************************)
(* wxcode_re (lines 71-73):                                                *)
(*   " (-|\+)?(DZ|RA|SN|SG|IC|PL|GR|GS|BR|FG|TS|SH|VA|HZ|BL|DR|SQ|FS|SS|DS)\b" *)
(***************************************************************************)
wx_vocabulary ==
    { <<"D", "Z">>, <<"R", "A">>, <<"S", "N">>, <<"S", "G">>, <<"I", "C">>, <<"P", "L">>,
      <<"G", "R">>, <<"G", "S">>, <<"B", "R">>, <<"F", "G">>, <<"T", "S">>, <<"S", "H">>,
      <<"V", "A">>, <<"H", "Z">>, <<"B", "L">>, <<"D", "R">>, <<"S", "Q">>, <<"F", "S">>,
      <<"S", "S">>, <<"D", "S">> }

\* wx_code_at without the \b that ends the pattern
wx_code_at_no_boundary(s, p) ==
    /\ p + 1 <= Len(s)
    /\ SubSeq(s, p, p + 1) \in wx_vocabulary

\* a vocabulary code at p followed by \b
wx_code_at(s, p) ==
    /\ p + 1 <= Len(s)
    /\ SubSeq(s, p, p + 1) \in wx_vocabulary
    /\ WordBoundary(s, p + 2)

\* number of intensity characters taken by the match at i (the optional
\* group is tried first), or -1 when there is no match at i
wx_sign_at(s, i) ==
    IF ~LitAt(s, i, <<" ">>) THEN -1
    ELSE IF InRange(s, i + 1) /\ s[i + 1] \in {"-", "+"} /\ wx_code_at(s, i + 2) THEN 1
    ELSE IF wx_code_at(s, i + 1) THEN 0
    ELSE -1

\* re.findall: group 2 (the code) of every non-overlapping match, left to right
RECURSIVE wxcode_re_findall(_, _)
wxcode_re_findall(s, from) ==
    LET At(i) == wx_sign_at(s, i) # -1
        i == Leftmost({x \in from..(Len(s) + 1) : At(x)})
        p == i + 1 + wx_sign_at(s, i)
    IN  IF i = 0 THEN <<>>
        ELSE <<Str(SubSeq(s, p, p + 1))>> \o wxcode_re_findall(s, p + 2)

(***************************************************************************)
(* parse_metar_text (lines 76-106).  A dict is a function on its keys.     *)
(***************************************************************************)
EmptyDict == [k \in {} |-> None]
Dict(d) == [t |-> "dict", v |-> d]
List(l) == [t |-> "list", v |-> l]
\* int(digits) as a number
int_of_digits(s) == Normalise(DigitsVal(s), 0)

parse_metar_text(txt) ==
    IF ~Truthy(txt) \/ is_missing(txt) THEN EmptyDict
    ELSE LET s == strip(txt.v)
             m == wind_re_search(s)
             vis == vis_re_search(s)
             a == altimeter_re_search(s)
             clouds == cloud_re_findall(s, 1)
             wx == wxcode_re_findall(s \o <<" ">>, 1)
         IN  (IF wx # <<>> THEN "wx_codes" :> List(wx) ELSE EmptyDict)
             @@ (IF clouds # <<>> THEN "clouds" :> List(clouds) ELSE EmptyDict)
             @@ (IF a.b # 0 THEN "altimeter_A" :> Str(a.alt) ELSE EmptyDict)
             @@ (IF vis.b # 0 THEN "visibility_raw" :> Str(vis.vis) ELSE EmptyDict)
             @@ (IF m.b # 0
                 THEN ("wind_dir" :> Str(m.dir))
                      @@ ("wind_spd_kt" :> int_of_digits(m.spd))
                      @@ ("wind_gust_kt" :> (IF m.gst # None THEN int_of_digits(m.gst.v) ELSE None))
                 ELSE EmptyDict)

(***************************************************************************)
(* row_to_record (lines 113-176).                                          *)
(***************************************************************************)
\* dict.get(k) and d[k] = v
Get(d, k) == IF k \in DOMAIN d THEN d[k] ELSE None
Put(d, k, v) == [x \in DOMAIN d \cup {k} |-> IF x = k THEN v ELSE d[x]]

\* pd.to_datetime(s) is outside the repository: on any string it returns a
\* Timestamp, returns NaT or raises.
DtOutcomes == {"timestamp", "NaT", "raise"}
Timestamp(s) == [t |-> "timestamp", v |-> s]
NaT == [t |-> "NaT", v |-> <<>>]

\* line 123: the condition under which pd.to_datetime is called
calls_to_datetime(raw_valid) == Truthy(raw_valid) /\ strip(raw_valid.v) # <<"M">>

\* lines 116-126: station and timestamp
station_and_valid(r, rw, dt) ==
    LET raw_valid == Get(rw, "valid")
        valid == IF ~calls_to_datetime(raw_valid) \/ dt = "raise" THEN None
                 ELSE IF dt = "NaT" THEN NaT
                 ELSE Timestamp(raw_valid.v)
    IN  Put(Put(Put(r, "station", Get(rw, "station")), "valid_raw", raw_valid),
            "valid", valid)

\* lines 129-141: (column, output name, cast)
numeric_specs ==
    << <<"tmpf", "tmpf_F", "float">>,
       <<"dwpf", "dwpf_F", "float">>,
       <<"relh", "relh_pct", "float">>,
       <<"drct", "wind_dir_deg", "float">>,
       <<"sknt", "wind_spd_kt", "float">>,
       <<"p01i", "precip_1hr_in", "float">>,
       <<"alti", "altim_inHg", "float">>,
       <<"mslp", "mslp_hPa", "float">>,
       <<"vsby", "visibility_sm", "float">>,
       <<"gust", "gust_kt", "float">>,
       <<"snowdepth", "snowdepth_in", "float">> >>

\* lines 143-148: the loop over numeric_specs from entry i on
RECURSIVE numeric_fields(_, _, _)
numeric_fields(r, rw, i) ==
    IF i > Len(numeric_specs) THEN r
    ELSE LET col == numeric_specs[i][1]
             outname == numeric_specs[i][2]
             res == parse_numeric_field(Get(rw, col), numeric_specs[i][3])
         IN  IF col \in DOMAIN rw
             THEN numeric_fields(
                      Put(Put(Put(r, outname \o "_raw", Get(rw, col)),
                              outname \o "_v", res[1]),
                          outname \o "_is_trace", res[2]),
                      rw, i + 1)
             ELSE numeric_fields(r, rw, i + 1)

\* lines 151-156: the groups of the slots i..4
RECURSIVE cloud_groups(_, _)
cloud_groups(rw, i) ==
    IF i > 4 THEN <<>>
    ELSE LET ctype == Get(rw, "skyc" \o ToString(i))
             cheight == Get(rw, "skyl" \o ToString(i))
         IN  (IF ~is_missing(ctype) \/ ~is_missing(cheight)
              THEN <<Dict([type_raw |-> ctype, height_raw |-> cheight])>>
              ELSE <<>>) \o cloud_groups(rw, i + 1)

\* lines 150-158
clouds_field(r, rw) ==
    IF cloud_groups(rw, 1) # <<>> THEN Put(r, "cloud_groups_raw", List(cloud_groups(rw, 1)))
    ELSE r

\* line 164: re.findall(r"[+-]?\w+", s) from position from
RECURSIVE wxtokens_findall(_, _)
wxtokens_findall(s, from) ==
    LET At(i) ==
            \/ InRange(s, i) /\ IsWord(s[i])
            \/ InRange(s, i + 1) /\ s[i] \in {"+", "-"} /\ IsWord(s[i + 1])
        i == Leftmost({x \in from..(Len(s) + 1) : At(x)})
        w == IF IsWord(s[i]) THEN i ELSE i + 1
        e == CHOOSE j \in (w + 1)..(Len(s) + 1) :
                 /\ \A k \in w..(j - 1) : IsWord(s[k])
                 /\ j = Len(s) + 1 \/ ~IsWord(s[j])
    IN  IF i = 0 THEN <<>>
        ELSE <<Str(SubSeq(s, i, e - 1))>> \o wxtokens_findall(s, e)

\* lines 160-164
wxcodes_fields(r, rw) ==
    LET wxc == Get(rw, "wxcodes")
        r1 == Put(r, "wxcodes_raw", wxc)
    IN  IF Truthy(wxc) /\ ~is_missing(wxc)
        THEN Put(r1, "wxcodes_tokens", List(wxtokens_findall(wxc.v, 1)))
        ELSE r1

\* lines 166-169
metar_fields(r, rw) ==
    LET metar_raw == Get(rw, "metar")
    IN  Put(Put(r, "metar_raw", metar_raw), "metar_parsed", Dict(parse_metar_text(metar_raw)))

\* lines 114-169: the record before the loop over csv_fieldnames
semantic_fields(rw, dt) ==
    metar_fields(
        wxcodes_fields(
            clouds_field(numeric_fields(station_and_valid(EmptyDict, rw, dt), rw, 1), rw),
            rw),
        rw)

\* lines 173-174: one iteration of the final loop, for column k
copy_column(r, rw, k) == IF k \notin DOMAIN r THEN Put(r, k \o "_raw", Get(rw, k)) ELSE r

\* lines 172-174: the iterations from position i on
RECURSIVE copy_remaining(_, _, _, _)
copy_remaining(r, rw, names, i) ==
    IF i > Len(names) THEN r
    ELSE copy_remaining(copy_column(r, rw, names[i]), rw, names, i + 1)

row_to_record(rw, names, dt) == copy_remaining(semantic_fields(rw, dt), rw, names, 1)

(***************************************************************************)
(* Inputs: strings built from fragments.                                   *)
(***************************************************************************)
RECURSIVE Flatten(_)
Flatten(ss) == IF ss = <<>> THEN <<>> ELSE Head(ss) \o Flatten(Tail(ss))

FragSeqs(F, n) == UNION {[1..k -> F] : k \in 0..n}
Texts(F, n) == {Flatten(fs) : fs \in FragSeqs(F, n)}

NumFrags ==
    { <<" ">>, <<"M">>, <<"T">>, <<"N", "A">>, <<"N", "o", "n", "e">>, <<"N">>,
      <<"1">>, <<"5">>, <<".">>, <<"e">>, <<"-">> }
RawTokens == {None} \cup {Str(s) : s \in Texts(NumFrags, MaxNumFrags)}
CastTypes == {"float", "int"}

AltFrags == { <<" ">>, <<"A">>, <<"2", "9", "9", "2">>, <<"5">>, <<"R">>, <<"Q">> }
VisFrags ==
    { <<" ">>, <<"1", "/", "2">>, <<"1", "/", "4">>, <<"M">>, <<"S", "M">>, <<"1", "0">>,
      <<"1">> }
WxFrags ==
    { <<" ">>, <<"-">>, <<"+">>, <<"R", "A">>, <<" ", "S", "N">>, <<" ", "-", "R", "A">>,
      <<"/">>, <<"X">> }
WindFrags ==
    { <<" ">>, <<"2", "1", "0">>, <<"1", "5">>, <<"G">>, <<"K", "T">>, <<"V", "R", "B">> }
CloudFrags ==
    { <<" ">>, <<"O", "V", "C">>, <<"0", "1", "0">>, <<"C", "B">>, <<"T", "C", "U">>,
      <<"V", "V">>, <<"X">> }
\* Whole reports.
SampleReports ==
    {
      <<"K", "J", "F", "K", " ", "2", "1", "0", "1", "5", "G", "2", "5", "K", "T", " ", "1",
        "0", "S", "M", " ", "-", "R", "A", " ", "B", "R", " ", "O", "V", "C", "0",
        "1", "0", " ", "A", "2", "9", "9", "2">>,
      <<"K", "S", "E", "A", " ", "V", "R", "B", "0", "3", "K", "T", " ", "M", "1", "/", "4",
        "S", "M", " ", "F", "G", " ", "V", "V", "0", "0", "2", " ", "A", "3", "0",
        "1", "2", " ", "R", "M", "K", " ", "+", "T", "S", "R", "A">>,
      <<" ", "K", "B", "O", "S", " ", "0", "0", "0", "0", "0", "K", "T", " ", "1", " ", "1",
        "/", "2", "S", "M", " ", "B", "K", "N", "0", "2", "5", "C", "B", " ", "1",
        "0", "/", "0", "8", " ", "A", "2", "9", "9", "2", "5", " ", "R", "A", "B",
        "1", "5", " ", "S", "N">> }
MetarTexts ==
    {None} \cup {Str(s) : s \in SampleReports} \cup
    {Str(s) : s \in Texts(AltFrags, MaxTextFrags) \cup Texts(VisFrags, MaxTextFrags)
                    \cup Texts(WxFrags, MaxTextFrags) \cup Texts(WindFrags, MaxTextFrags)
                    \cup Texts(CloudFrags, MaxTextFrags)}

\* Column names of a CSV header: consumed columns, an unrelated one, and
\* names that coincide with keys of the record.
ColumnNames ==
    { "station", "valid", "tmpf", "p01i", "skyc1", "skyl1", "wxcodes", "metar",
      "lon", "lon_raw", "metar_parsed", "valid_raw", "tmpf_F", "tmpf_F_v",
      "cloud_groups" }
\* A cell of a row; None is the cell of a short row.
RowValues ==
    { None, Str(<<>>), Str(<<"M">>), Str(<<" ", "N", "A">>), Str(<<"T">>),
      Str(<<"1", ".", "5">>), Str(<<"O", "V", "C">>), Str(<<"X", " ", "-", "R", "A">>) }
Headers == UNION {[1..k -> ColumnNames] : k \in 0..MaxCols}
Range(f) == {f[i] : i \in DOMAIN f}

(***************************************************************************)
(* Specification of parse_numeric_field on every raw token.                *)
(***************************************************************************)
NoOut == Pair(None, None)

\* The state of the operations a specification does not exercise.
IdleNumeric == raw = None /\ cast = "float" /\ num_out = NoOut
IdleText == metar = None /\ parsed = EmptyDict
IdleRow ==
    /\ row = EmptyDict /\ csv_fieldnames = <<>> /\ rec = EmptyDict
    /\ ci = 1 /\ dt_called = FALSE
IdleBatch ==
    /\ docs = <<>> /\ doc_ix = 1 /\ results = <<>> /\ stdout = <<>> /\ files = EmptyDict
    /\ records = <<>> /\ payload = None /\ clock = 0

InitNumeric ==
    /\ pc = "call"
    /\ raw \in RawTokens
    /\ cast \in CastTypes
    /\ num_out = NoOut
    /\ IdleText /\ IdleRow /\ IdleBatch

CallParseNumeric ==
    /\ pc = "call"
    /\ num_out' = parse_numeric_field(raw, cast)
    /\ pc' = "returned"
    /\ UNCHANGED <<raw, cast, text_vars, row_vars, batch_vars>>

NextNumeric == CallParseNumeric

SpecNumeric == InitNumeric /\ [][NextNumeric]_vars

(***************************************************************************)
(* Specification of parse_metar_text on every text.                        *)
(***************************************************************************)
InitText ==
    /\ pc = "call"
    /\ metar \in MetarTexts
    /\ parsed = EmptyDict
    /\ IdleNumeric /\ IdleRow /\ IdleBatch

CallParseMetarText ==
    /\ pc = "call"
    /\ parsed' = parse_metar_text(metar)
    /\ pc' = "returned"
    /\ UNCHANGED <<metar, numeric_vars, row_vars, batch_vars>>

NextText == CallParseMetarText

SpecText == InitText /\ [][NextText]_vars

(***************************************************************************)
(* Specification of row_to_record on every row of every header.            *)
(***************************************************************************)
InitRow ==
    /\ pc = "assemble"
    /\ csv_fieldnames \in Headers
    /\ row \in [Range(csv_fieldnames) -> RowValues]
    /\ rec = EmptyDict
    /\ ci = 1
    /\ dt_called = FALSE
    /\ IdleNumeric /\ IdleText /\ IdleBatch

\* lines 114-169
AssembleSemantic ==
    /\ pc = "assemble"
    /\ \E dt \in DtOutcomes : rec' = semantic_fields(row, dt)
    /\ dt_called' = calls_to_datetime(Get(row, "valid"))
    /\ pc' = "copy"
    /\ UNCHANGED <<row, csv_fieldnames, ci, numeric_vars, text_vars, batch_vars>>

\* lines 172-174, one iteration
CopyColumn ==
    /\ pc = "copy"
    /\ ci <= Len(csv_fieldnames)
    /\ rec' = copy_column(rec, row, csv_fieldnames[ci])
    /\ ci' = ci + 1
    /\ UNCHANGED <<pc, row, csv_fieldnames, dt_called, numeric_vars, text_vars, batch_vars>>

\* line 176
ReturnRecord ==
    /\ pc = "copy"
    /\ ci > Len(csv_fieldnames)
    /\ pc' = "done"
    /\ UNCHANGED <<row_vars, numeric_vars, text_vars, batch_vars>>

NextRow == AssembleSemantic \/ CopyColumn \/ ReturnRecord

SpecRow == InitRow /\ [][NextRow]_vars

(***************************************************************************)
(* process_csv_to_json (lines 183-208) and recurse_and_process (211-224).  *)
(***************************************************************************)
\* Where the processing of a document raises an Exception, if anywhere.
Faults == {"none", "open_csv", "read", "open_json", "dump"}
\* Contents of a CSV file: the header and the rows csv.DictReader yields.
Tables ==
    { [fieldnames |-> <<>>, rows |-> <<>>],
      [fieldnames |-> <<"metar">>, rows |-> <<>>],
      [fieldnames |-> <<"valid", "tmpf">>,
       rows |-> << ("valid" :> Str(<<"1">>)) @@ ("tmpf" :> Str(<<"T">>)) >>] }
\* The i-th path root.rglob("*.csv") yields, without its suffix.
Stem(i) == "d" \o ToString(i)
Discovered(n) ==
    {d \in [1..n -> [stem : {Stem(i) : i \in 1..n}, table : Tables, fault : Faults]] :
        \A i \in 1..n : d[i].stem = Stem(i)}
csv_path(d) == d.stem \o ".csv"
\* line 187: csv_path.with_suffix(".json")
json_path(d) == d.stem \o ".json"

\* lines 194-195, given the outcome of pd.to_datetime for each row
read_records(d, dts) ==
    [i \in 1..Len(d.table.rows) |->
        Dict(row_to_record(d.table.rows[i], d.table.fieldnames, dts[i]))]

\* lines 197-202
build_payload(d, recs, now) ==
    Dict([source_csv |-> csv_path(d), generated_at |-> now, n_rows |-> Len(recs),
          records |-> recs])

Doc == docs[doc_ix]

idle_in_batch == <<numeric_vars, text_vars, row_vars>>

InitBatch ==
    /\ pc = "next"
    /\ docs \in UNION {Discovered(n) : n \in 0..MaxDocs}
    /\ doc_ix = 1
    /\ results = <<>>
    /\ stdout = <<>>
    /\ files = EmptyDict
    /\ records = <<>>
    /\ payload = None
    /\ clock = 0
    /\ IdleNumeric /\ IdleText /\ IdleRow

\* line 218: the loop takes the next path and enters the try
NextDocument ==
    /\ pc = "next"
    /\ doc_ix <= Len(docs)
    /\ pc' = "open_csv"
    /\ records' = <<>>
    /\ payload' = None
    /\ UNCHANGED <<docs, doc_ix, results, stdout, files, clock, idle_in_batch>>

\* line 191
OpenCsv ==
    /\ pc = "open_csv"
    /\ pc' = IF Doc.fault = "open_csv" THEN "except" ELSE "read"
    /\ UNCHANGED <<docs, doc_ix, results, stdout, files, records, payload, clock, idle_in_batch>>

\* lines 192-195
ReadRows ==
    /\ pc = "read"
    /\ IF Doc.fault = "read"
       THEN pc' = "except" /\ UNCHANGED records
       ELSE /\ \E dts \in [1..Len(Doc.table.rows) -> DtOutcomes] :
                   records' = read_records(Doc, dts)
            /\ pc' = "open_json"
    /\ UNCHANGED <<docs, doc_ix, results, stdout, files, payload, clock, idle_in_batch>>

\* lines 197-204: the payload is built, the JSON file is opened for writing
OpenJson ==
    /\ pc = "open_json"
    /\ clock' = clock + 1
    /\ payload' = build_payload(Doc, records, clock')
    /\ IF Doc.fault = "open_json"
       THEN pc' = "except" /\ UNCHANGED files
       ELSE pc' = "dump" /\ files' = Put(files, json_path(Doc), Str(<<>>))
    /\ UNCHANGED <<docs, doc_ix, results, stdout, records, idle_in_batch>>

\* line 205
DumpJson ==
    /\ pc = "dump"
    /\ IF Doc.fault = "dump"
       THEN pc' = "except" /\ UNCHANGED files
       ELSE pc' = "ok" /\ files' = Put(files, json_path(Doc), payload)
    /\ UNCHANGED <<docs, doc_ix, results, stdout, records, payload, clock, idle_in_batch>>

\* lines 207-208 and 220
ReturnPayload ==
    /\ pc = "ok"
    /\ stdout' = Append(stdout, [tag |-> "OK", path |-> json_path(Doc)])
    /\ results' = Append(results, payload)
    /\ doc_ix' = doc_ix + 1
    /\ pc' = "next"
    /\ UNCHANGED <<docs, files, records, payload, clock, idle_in_batch>>

\* the handler without the except clause: the exception leaves the function
HandleException_propagates ==
    /\ pc = "except"
    /\ pc' = "raised"
    /\ UNCHANGED <<docs, doc_ix, results, stdout, files, records, payload, clock, idle_in_batch>>

\* lines 221-222
HandleException ==
    /\ pc = "except"
    /\ stdout' = Append(stdout, [tag |-> "ERROR", path |-> csv_path(Doc)])
    /\ doc_ix' = doc_ix + 1
    /\ pc' = "next"
    /\ UNCHANGED <<docs, results, files, records, payload, clock, idle_in_batch>>

\* line 224
ReturnResults ==
    /\ pc = "next"
    /\ doc_ix > Len(docs)
    /\ pc' = "returned"
    /\ UNCHANGED <<docs, doc_ix, results, stdout, files, records, payload, clock, idle_in_batch>>

NextBatch ==
    \/ NextDocument
    \/ OpenCsv
    \/ ReadRows
    \/ OpenJson
    \/ DumpJson
    \/ ReturnPayload
    \/ HandleException
    \/ ReturnResults

SpecBatch == InitBatch /\ [][NextBatch]_vars

(***************************************************************************)
(* Properties of parse_numeric_field.                                      *)
(***************************************************************************)
C1_Sentinels == {<<>>, <<"M">>, <<"N", "A">>, <<"N", "o", "n", "e">>}
C1_Trimmed == IF raw = None THEN <<>> ELSE strip(raw.v)
C1_Missing == raw = None \/ C1_Trimmed \in C1_Sentinels

\* C1: parse_numeric_field never raises and returns (null, false) for a null raw or one whose
\* trimmed form is "", "M", "NA" or "None"; (0.0, true) when the trimmed form
\* is "T"; (cast of the trimmed token, false) when that cast succeeds and
\* (null, false) when it fails.  Hence is_trace implies value = 0.0.
C1_ParseNumericContract ==
    pc = "returned" =>
        /\ num_out[1].t # "exception"
        /\ C1_Missing => num_out = <<None, Bool(FALSE)>>
        /\ (~C1_Missing /\ C1_Trimmed = <<"T">>) => num_out = <<Num(0, 0), Bool(TRUE)>>
        /\ (~C1_Missing /\ C1_Trimmed # <<"T">>) =>
              IF Cast(cast, C1_Trimmed).ok
              THEN num_out = <<Cast(cast, C1_Trimmed).val, Bool(FALSE)>>
              ELSE num_out = <<None, Bool(FALSE)>>
        /\ num_out[2] = Bool(TRUE) => num_out[1] = Num(0, 0)

\* C1 witness: a missing token with surrounding whitespace has been normalised.
C1_Witness ==
    /\ pc = "returned"
    /\ raw = Str(<<" ", "N", "o", "n", "e", " ">>)
    /\ num_out = <<None, Bool(FALSE)>>

(***************************************************************************)
(* Properties of parse_metar_text.                                         *)
(***************************************************************************)
TextSentinels == {<<>>, <<"M">>, <<"N", "A">>, <<"N", "o", "n", "e">>}
\* the call has returned on a non-missing text
ParsedNonMissing == pc = "returned" /\ metar # None /\ strip(metar.v) \notin TextSentinels
\* the text the patterns are applied to
Scanned == IF metar = None THEN <<>> ELSE strip(metar.v)

RECURSIVE SortedSeq(_)
SortedSeq(S) ==
    IF S = {} THEN <<>>
    ELSE LET m == CHOOSE x \in S : \A y \in S : x <= y
         IN  <<m>> \o SortedSeq(S \ {m})

\* The space-delimited tokens of s: first positions, and the token at one.
C7_TokenStarts(s) == {i \in 1..Len(s) : s[i] # " " /\ (i = 1 \/ s[i - 1] = " ")}
C7_TokenAt(s, i) ==
    LET j == CHOOSE j \in i..Len(s) :
                 /\ \A k \in i..j : s[k] # " "
                 /\ j = Len(s) \/ s[j + 1] = " "
    IN  SubSeq(s, i, j)
C7_IsCodeToken(tok) ==
    \/ tok \in wx_vocabulary
    \/ Len(tok) = 3 /\ tok[1] \in {"-", "+"} /\ Tail(tok) \in wx_vocabulary
C7_CodeOf(tok) == Str(IF Len(tok) = 3 THEN Tail(tok) ELSE tok)
C7_TokenCodes(s) ==
    LET q == SortedSeq({i \in C7_TokenStarts(s) : C7_IsCodeToken(C7_TokenAt(s, i))})
    IN  [k \in 1..Len(q) |-> C7_CodeOf(C7_TokenAt(s, q[k]))]

\* C7 as stated: wx_codes is the sequence of the codes of all space-delimited
\* tokens that are an optional intensity prefix followed by one vocabulary
\* code, and the key is absent exactly when there is no such token.
C7_EveryCodeToken ==
    ParsedNonMissing =>
        /\ "wx_codes" \in DOMAIN parsed <=> C7_TokenCodes(Scanned) # <<>>
        /\ "wx_codes" \in DOMAIN parsed => parsed["wx_codes"] = List(C7_TokenCodes(Scanned))

\* Occurrences in s of: a space, an optional intensity prefix, a vocabulary
\* code, then the end of s or a non-word character.  The offset of the code.
C7_CodeOffset(s, i) ==
    IF InRange(s, i + 1) /\ s[i + 1] \in {"-", "+"} THEN i + 2 ELSE i + 1
C7_Occurrences(s) ==
    {i \in 1..Len(s) :
        LET p == C7_CodeOffset(s, i)
        IN  /\ s[i] = " "
            /\ p + 1 <= Len(s)
            /\ SubSeq(s, p, p + 1) \in wx_vocabulary
            /\ p + 2 > Len(s) \/ ~IsWord(s[p + 2])}
C7_OccurrenceCodes(s) ==
    LET q == SortedSeq(C7_Occurrences(s))
    IN  [k \in 1..Len(q) |->
            Str(SubSeq(s, C7_CodeOffset(s, q[k]), C7_CodeOffset(s, q[k]) + 1))]

\* C7 amended: wx_codes is the sequence, left to right, of the code of every
\* occurrence in the trimmed text of a space, an optional intensity prefix and
\* a vocabulary code followed by the end of the text or a non-word character;
\* the key is absent exactly when there is no such occurrence.
C7_EveryPrecededCode ==
    ParsedNonMissing =>
        /\ "wx_codes" \in DOMAIN parsed <=> C7_OccurrenceCodes(Scanned) # <<>>
        /\ "wx_codes" \in DOMAIN parsed =>
               parsed["wx_codes"] = List(C7_OccurrenceCodes(Scanned))

\* C7 witness: a code at the very end of the text, after another one, is captured.
C7_Witness ==
    /\ ParsedNonMissing
    /\ metar = Str(<<"X", " ", "S", "N", " ", "-", "R", "A">>)
    /\ parsed["wx_codes"] = List(<<Str(<<"S", "N">>), Str(<<"R", "A">>)>>)

\* The visibility shapes of the claim at position i of s.
C9_Fractions ==
    { <<"1", "/", "4">>, <<"M", "1", "/", "4">>, <<"1", "/", "2">>, <<"M", "1", "/", "2">> }
C9_ShapeAt(s, i) ==
    \/ \E k \in 1..Len(vis_sm_cands) : vis_sm_ok(s, i, vis_sm_cands[k])
    \/ \E f \in C9_Fractions : LitAt(s, i, f)

\* C9 as stated: visibility_raw is emitted if and only if the text contains an
\* SM expression or one of 1/4, M1/4, 1/2, M1/2, and holds a piece of the text.
C9_VisibilityIff ==
    ParsedNonMissing =>
        /\ "visibility_raw" \in DOMAIN parsed <=>
               \E i \in 1..Len(Scanned) : C9_ShapeAt(Scanned, i)
        /\ "visibility_raw" \in DOMAIN parsed =>
               \E i, j \in 1..Len(Scanned) :
                   C9_ShapeAt(Scanned, i) /\ parsed["visibility_raw"] = Str(SubSeq(Scanned, i, j))

\* An A that starts a word, followed by exactly four digits.
C10_TokenAt(s, i) ==
    /\ LitAt(s, i, <<"A">>)
    /\ DigitsAt(s, i + 1, 4)
    /\ ~(InRange(s, i + 5) /\ IsDigit(s[i + 5]))
    /\ ~(InRange(s, i - 1) /\ IsWord(s[i - 1]))

\* C10 as stated: altimeter_A is emitted if and only if the text contains an A
\* followed by exactly four digits (not five or more, and not the tail of a
\* longer word), and holds those four digits.
C10_AltimeterIff ==
    ParsedNonMissing =>
        /\ "altimeter_A" \in DOMAIN parsed <=>
               \E i \in 1..Len(Scanned) : C10_TokenAt(Scanned, i)
        /\ "altimeter_A" \in DOMAIN parsed =>
               \E i \in 1..Len(Scanned) :
                   C10_TokenAt(Scanned, i) /\ parsed["altimeter_A"] = Str(SubSeq(Scanned, i + 1, i + 4))

(***************************************************************************)
(* Properties of row_to_record.                                            *)
(***************************************************************************)
Sentinels == {<<>>, <<"M">>, <<"N", "A">>, <<"N", "o", "n", "e">>}
\* the missing-value convention
Missing(x) == x = None \/ strip(x.v) \in Sentinels
Columns == Range(csv_fieldnames)
HasKey(k) == k \in DOMAIN rec
SkyColumn(kind, i) == kind \o ToString(i)

\* The raw value of column c is in the record under a key of c.
C2_Carried(c) ==
    \/ c = "station" /\ rec["station"] = row[c]
    \/ c = "valid" /\ rec["valid_raw"] = row[c]
    \/ \E i \in 1..Len(numeric_specs) :
           /\ c = numeric_specs[i][1]
           /\ rec[numeric_specs[i][2] \o "_raw"] = row[c]
    \/ \E i \in 1..4 :
           /\ c \in {SkyColumn("skyc", i), SkyColumn("skyl", i)}
           /\ HasKey("cloud_groups_raw")
           /\ rec["cloud_groups_raw"].t = "list"
           /\ \E g \in 1..Len(rec["cloud_groups_raw"].v) :
                  rec["cloud_groups_raw"].v[g].v[IF c = SkyColumn("skyc", i)
                                                 THEN "type_raw" ELSE "height_raw"] = row[c]
    \/ c = "wxcodes" /\ rec["wxcodes_raw"] = row[c]
    \/ c = "metar" /\ rec["metar_raw"] = row[c]
    \/ HasKey(c \o "_raw") /\ rec[c \o "_raw"] = row[c]

\* C2: every column of the column-name list has its raw value in the returned
\* record, under its semantic key or under <column>_raw, also when the
\* column's name coincides with a key already written.
C2_NoColumnDropped == pc = "done" => \A c \in Columns : C2_Carried(c)

\* C3: for each numeric schema entry whose column is in the row, the returned
\* record holds <outputName>_raw = row[column] verbatim and (_v, _is_trace)
\* equal to the Normalizer's result; for a column not in the row, steps 1-6
\* emit none of the three keys.
C3_NumericFields ==
    \A i \in 1..Len(numeric_specs) :
        LET col == numeric_specs[i][1]
            out == numeric_specs[i][2]
        IN  /\ (pc = "done" /\ col \in DOMAIN row) =>
                   /\ HasKey(out \o "_raw") /\ rec[out \o "_raw"] = row[col]
                   /\ HasKey(out \o "_v") /\ HasKey(out \o "_is_trace")
                   /\ <<rec[out \o "_v"], rec[out \o "_is_trace"]>>
                          = parse_numeric_field(row[col], "float")
            /\ (pc = "copy" /\ ci = 1 /\ col \notin DOMAIN row) =>
                   /\ ~HasKey(out \o "_raw")
                   /\ ~HasKey(out \o "_v")
                   /\ ~HasKey(out \o "_is_trace")

\* C4: valid is null, without the date-time parser being called, whenever the
\* raw valid value is missing per the convention; otherwise it is the parser's
\* result or null; valid_raw is the raw value verbatim.
C4_ValidTimestamp ==
    pc = "done" =>
        LET raw_valid == Get(row, "valid")
        IN  /\ rec["valid_raw"] = raw_valid
            /\ Missing(raw_valid) => (rec["valid"] = None /\ ~dt_called)
            /\ ~Missing(raw_valid) =>
                   /\ dt_called
                   /\ rec["valid"] \in {Timestamp(raw_valid.v), NaT, None}

\* The groups of the slots with at least one non-missing value, in slot order.
C5_Slots ==
    {i \in 1..4 : ~Missing(Get(row, SkyColumn("skyc", i)))
                    \/ ~Missing(Get(row, SkyColumn("skyl", i)))}
C5_Groups ==
    LET q == SortedSeq(C5_Slots)
    IN  [k \in 1..Len(q) |->
            Dict([type_raw |-> Get(row, SkyColumn("skyc", q[k])),
                  height_raw |-> Get(row, SkyColumn("skyl", q[k]))])]

\* C5: cloud_groups_raw of the returned record is the sequence of the groups of
\* the slots with a non-missing value, and is absent if and only if all four
\* slots are missing.
C5_CloudGroups ==
    pc = "done" =>
        /\ HasKey("cloud_groups_raw") <=> C5_Slots # {}
        /\ HasKey("cloud_groups_raw") => rec["cloud_groups_raw"] = List(C5_Groups)

\* The columns steps 1-6 consume.
C8_Consumed ==
    {"station", "valid", "wxcodes", "metar"}
        \cup {numeric_specs[i][1] : i \in 1..Len(numeric_specs)}
        \cup {SkyColumn("skyc", i) : i \in 1..4} \cup {SkyColumn("skyl", i) : i \in 1..4}
\* The keys steps 1-6 write for the row.
C8_SemanticKeys == DOMAIN semantic_fields(row, "raise")

C8_CopyStep ==
    (pc = "copy" /\ ci <= Len(csv_fieldnames) /\ ci' = ci + 1) =>
        LET c == csv_fieldnames[ci]
        IN  /\ c \in C8_Consumed => DOMAIN rec' = DOMAIN rec
            /\ \A k \in C8_SemanticKeys : rec'[k] = rec[k]

\* C8: an iteration of the final loop adds no key for a column steps 1-6
\* consumed, and changes no key steps 1-6 wrote.
C8_CopyOnlyUnconsumed == [][C8_CopyStep]_vars

(***************************************************************************)
(* Properties of recurse_and_process.                                      *)
(***************************************************************************)
C6_Succeeded == SelectSeq(docs, LAMBDA d : d.fault = "none")
C6_Line(d) ==
    IF d.fault = "none" THEN [tag |-> "OK", path |-> json_path(d)]
    ELSE [tag |-> "ERROR", path |-> csv_path(d)]

\* C6: whatever documents fail, no exception leaves recurse_and_process; every
\* discovered document is attempted once, in discovery order, with an error
\* line for each failing one; the returned list is the payloads of the
\* documents that succeeded, in that order.
C6_FailureIsolated ==
    /\ pc # "raised"
    /\ pc = "next" => Len(stdout) = doc_ix - 1
    /\ pc = "returned" =>
        /\ stdout = [i \in 1..Len(docs) |-> C6_Line(docs[i])]
        /\ Len(results) = Len(C6_Succeeded)
        /\ \A j \in 1..Len(results) :
               /\ results[j].v.source_csv = csv_path(C6_Succeeded[j])
               /\ results[j].v.n_rows = Len(C6_Succeeded[j].table.rows)
               /\ \E dts \in [1..Len(C6_Succeeded[j].table.rows) -> DtOutcomes] :
                      results[j].v.records = read_records(C6_Succeeded[j], dts)

\* C6 witness: the first document failed and the second was still processed.
C6_Witness ==
    /\ pc = "returned"
    /\ Len(docs) = 2
    /\ docs[1].fault = "read"
    /\ docs[2].fault = "none"
    /\ Len(results) = 1
    /\ results[1].v.source_csv = csv_path(docs[2])
    /\ stdout[1].tag = "ERROR"

============================================================================
